---- MODULE Spec2Model ----
(***************************************************************************)
(* context-kit: the MCP session manager (mcp_client/session_manager.py),   *)
(* the OAuth callback receiver (auth_server/auth_server.py) and the token  *)
(* storage (mcp_client/token_storage.py), and the commands of the CLI that *)
(* edit the server registry and use the manager (cxk.py, commands/).       *)
(*                                                                         *)
(* Spec      the session manager driven by one coroutine: every manager    *)
(*           method is awaited to completion before the next is called.    *)
(* ConcSpec  the session manager driven by two coroutines on one event     *)
(*           loop: they interleave at the await points of the methods.     *)
(* AuthSpec  one AuthServer: the coroutine in handle_callback on the main  *)
(*           event loop, and the callback endpoint run by the listener     *)
(*           thread, interleaved at each access to the shared attributes.  *)
(* AuthLiveSpec  AuthSpec with the progress the event loop and the threads *)
(*           guarantee.                                                    *)
(* StoreSpec the KeychainTokenStorageWithFallback instances of one server  *)
(*           name over one keychain and one fallback file, with keychain   *)
(*           and file operations that may fail.                            *)
(* CliSpec   the commands cxk init and cxk mcp add-sse / add-stdio /       *)
(*           add-http run one after another on one project.                *)
(* CreateSpecSpec  one cxk create-spec command: handle_create_spec using   *)
(*           the session manager on demand, then its finally block.        *)
(***************************************************************************)
EXTENDS Integers, Sequences, FiniteSets, TLC

\* ------------------------------------------------------------------ bounds
\* ClientSession objects, AuthServer objects and AsyncExitStack objects the
\* manager may create in one run.
MaxSessions == 4
MaxReceivers == 2
MaxStacks == 2
\* ClientSession objects created while two coroutines share the manager.
MaxConcSessions == 2
\* handle_callback() calls and callback requests in one run of an AuthServer.
MaxWaits == 2
MaxRequests == 2
\* KeychainTokenStorageWithFallback objects constructed for the server name.
MaxStores == 2
MaxThreads == 2

\* ---------------------------------------------------------------- registry
\* state.mcp_config.mcpServers: an ordered mapping name -> server config. The
\* largest registry considered, and the registries a project may have (an
\* empty one, one remote server, all three kinds of server).
Registry == <<"a", "b", "c">>

\* "u" is an entry whose config object is of none of the three classes.
Registries == {<<>>, <<"b">>, Registry, <<"a", "u">>}

RegistryNames == UNION {{r[i] : i \in 1..Len(r)} : r \in Registries}

\* The config class of each registered server (the isinstance dispatch).
Kind(n) ==
  CASE n = "a" -> "stdio"
    [] n = "b" -> "sse"
    [] n = "u" -> "other"
    [] OTHER -> "http"

\* The names of the model: those of the registries and one in none of them.
Names == RegistryNames \cup {"zz"}

Tasks == {"t1", "t2"}

VARIABLES
  registry,      \* state.mcp_config.mcpServers of the running command
  state_set,     \* MCPSessionManager._state is set
  sessions,      \* MCPSessionManager._sessions: name -> session id, 0 = absent
  exit_stack,    \* MCPSessionManager._exit_stack: stack id, 0 = None
  initialized,   \* MCPSessionManager._initialized
  stacks,        \* the AsyncExitStack objects: id -> sequence of <<kind, id>>
  sess,          \* the ClientSession objects: id -> [name, status, recv]
  recv,          \* the AuthServer objects: id -> "running" | "failed" | "stopped"
  port_owner,    \* the AuthServer whose listener holds localhost:41008, 0 = free
  task,          \* the coroutines calling the manager: their position and locals
  lastOk,        \* history: name -> session returned by the last successful
                 \* acquisition, 0 once a cleanup() or an eager batch began
  last           \* history: the call that returned or raised in the last step
                 \* (its locals at that moment), pc = "idle" if none did

VARIABLES
  listening,     \* AuthServer.server_thread is alive and serving
  cb_future,     \* AuthServer._callback_future: future id, 0 = None
  cb_code,       \* AuthServer._callback_code
  cb_state,      \* AuthServer._callback_state
  main_loop,     \* AuthServer._main_loop is set (there is one main loop)
  fut,           \* the asyncio.Future objects handle_callback created
  ready,         \* the main loop's queue of scheduled callbacks (FIFO)
  co,            \* the coroutine calling handle_callback / stop on the main loop
  h,             \* the callback endpoint on the listener thread
  resp,          \* history: the answer given in the last step, if any
  nreq,          \* history: callback requests received so far
  server,        \* AuthServer.server: uvicorn.Server id, 0 = None
  server_thread, \* AuthServer.server_thread: thread id, 0 = None
  threads,       \* the listener threads created: id -> "alive" | "exited"
  acall          \* history: the start() or stop() that returned in the last step

VARIABLES
  kc,            \* the keychain entries of the server: record -> JSON text
  file,          \* the fallback file secrets_<server>.json
  umask,         \* the process's file mode creation mask
  enabled,       \* KeychainTokenStorageWithFallback.keychain_enabled, per instance
  probe,         \* history: the outcome of each instance's construction probe
  lastSet,       \* history: the last set_tokens call
  slast          \* history: the storage call made in the last step

VARIABLES
  mcp_json,      \* the registry file .cxk/mcp.json of the project, Absent if none
  cli            \* history: the cxk command that ended in the last step

VARIABLES
  cmd            \* the position of the create-spec command in handle_create_spec

clivars == <<mcp_json, cli>>

storevars == <<kc, file, umask, enabled, probe, lastSet, slast>>

authvars == <<listening, cb_future, cb_code, cb_state, main_loop, fut, ready, co,
              h, resp, nreq, server, server_thread, threads, acall>>

mgrvars == <<registry, state_set, sessions, exit_stack, initialized, stacks, sess, recv,
             port_owner, task, lastOk, last>>

vars == <<mgrvars, authvars, storevars, clivars, cmd>>

IdleTask ==
  [pc |-> "idle", t |-> "", op |-> "none", name |-> "", stk |-> 0, rcv |-> 0,
   ses |-> 0, idx |-> 0, res |-> 0, err |-> "none", prev |-> 0, made |-> 0,
   batch |-> {}, tried |-> {}, msg |-> <<>>, logged |-> FALSE, closing |-> 0,
   held |-> <<>>, rel |-> <<>>, failed |-> {}]

NoRequest == [code |-> "", state |-> "none", error |-> "", desc |-> "none"]

IdleHandler == [pc |-> "idle", q |-> NoRequest, arr |-> "", arrf |-> 0]

NoResponse ==
  [status |-> 0, q |-> NoRequest, arr |-> "", arrf |-> 0, scheduled |-> FALSE]

\* The coroutine using the AuthServer: cold is a local of stop(), whether the
\* call found neither a server nor a thread.
IdleCo == [pc |-> "idle", f |-> 0, mt |-> "loop", cold |-> FALSE]

NoLifeCall == [op |-> "none", running |-> FALSE, cold |-> FALSE]

\* AuthServer.__init__
AuthInit ==
  /\ listening = FALSE
  /\ cb_future = 0
  /\ cb_code = "none"
  /\ cb_state = "none"
  /\ main_loop = FALSE
  /\ fut = <<>>
  /\ ready = <<>>
  /\ co = IdleCo
  /\ h = IdleHandler
  /\ resp = NoResponse
  /\ nreq = 0
  /\ server = 0
  /\ server_thread = 0
  /\ threads = <<>>
  /\ acall = NoLifeCall

\* The records a store keeps for its server, in the keychain under
\* f"{username}_tokens" / f"{username}_client_info" and in the file under the
\* keys "tokens" / "client_info".
StoreRecords == {"tokens", "client_info"}

\* Python's None as a stored or returned value, and a key that a JSON document
\* does not have.
None == [none |-> TRUE]

Absent == [absent |-> TRUE]

NoCall ==
  [op |-> "none", rec |-> "", inst |-> 0, arg |-> None, res |-> None,
   err |-> "none", en_before |-> FALSE, kc_calls |-> 0, kc_raised |-> FALSE,
   file_read |-> FALSE, file_written |-> FALSE, file_fault |-> FALSE,
   rewrite |-> FALSE]

NoSet == [val |-> None, inst |-> 0, tier |-> "", stores |-> 0]

NoFile ==
  [exists |-> FALSE, valid |-> FALSE, mode |-> {},
   data |-> [r \in StoreRecords |-> Absent]]

\* No store constructed yet, nothing stored for the server.
StoreIdle ==
  /\ kc = [r \in StoreRecords |-> None]
  /\ file = NoFile
  /\ enabled = <<>>
  /\ probe = <<>>
  /\ lastSet = NoSet
  /\ slast = NoCall

NoCommand ==
  [cmd |-> "none", name |-> "", init |-> FALSE, exit |-> 0, out |-> <<>>,
   err |-> <<>>]

\* handle_create_spec not entered: how is the way its body ended, exit the
\* status of a sys.exit() on the way.
NoRun == [pc |-> "idle", how |-> "", exit |-> 0]

\* No project yet: the registry file does not exist, no command has run.
CliIdle ==
  /\ mcp_json = Absent
  /\ cli = NoCommand
  /\ cmd = NoRun

\* MCPSessionManager.__init__
MgrInit ==
  /\ registry \in Registries
  /\ state_set = FALSE
  /\ sessions = [n \in RegistryNames |-> 0]
  /\ exit_stack = 0
  /\ initialized = FALSE
  /\ stacks = <<>>
  /\ sess = <<>>
  /\ recv = <<>>
  /\ port_owner = 0
  /\ task = [t \in Tasks |-> IdleTask]
  /\ lastOk = [n \in RegistryNames |-> 0]
  /\ last = IdleTask

Init ==
  /\ AuthInit
  /\ MgrInit
  /\ StoreIdle
  /\ umask = {}
  /\ CliIdle

\* ------------------------------------------------------------------ helpers

\* A coroutine may make its next call when it is not inside one.
Free(t) == task[t].pc = "idle"

\* Sessions a suspended call may still create (keeps the ids within MaxSessions).
Need(t) ==
  CASE task[t].pc \in {"auth_start", "connect"} -> 1
    [] task[t].pc = "e_start" -> Len(registry)
    [] task[t].pc = "e_connect" -> Len(registry) - task[t].idx + 1
    [] task[t].pc = "e_initialize" -> Len(registry) - task[t].idx
    [] OTHER -> 0

Room(k) == Len(sess) + Need("t1") + Need("t2") + k <= MaxSessions

\* `server_name in self._sessions` / `self._sessions.get(server_name)` truthy.
CacheHitNever(n) == FALSE

CacheHit(n) == n \in RegistryNames /\ sessions[n] # 0

\* The names a caller asks for: the configured ones and one that is not.
Asked == {registry[i] : i \in 1..Len(registry)} \cup {"zz"}

\* The keys of state.mcp_config.mcpServers.
Known == {registry[i] : i \in 1..Len(registry)}

\* ValueError(f"Server '{server_name}' not found. Available servers:
\* {available_servers}") and ValueError("No MCP servers configured").
NotFoundMsgNoList(n) == <<"Server not found. Available servers:", n, <<>>>>

NotFoundMsg(n) == <<"Server not found. Available servers:", n, registry>>

NoServersMsg == <<"No MCP servers configured">>

\* AuthServer.start() on a fresh object: the listener thread binds the port if
\* it is free; otherwise uvicorn fails to bind and the thread exits.
Started == IF port_owner = 0 THEN "running" ELSE "failed"

\* AuthServer.stop(): should_exit, join, clear: the listener is gone.
StopRecv(rv, stopped) ==
  [r \in 1..Len(rv) |-> IF r \in stopped THEN "stopped" ELSE rv[r]]

FreePort(owner, stopped) == IF owner \in stopped THEN 0 ELSE owner

\* AsyncExitStack.aclose() from the top of the stack down to its next
\* suspension: AuthServer.__aexit__ does not suspend, closing a session does.
FirstIn(s) == 1

\* The entry of a non-empty stack s that is released next: the last one pushed.
NextOut(s) == Len(s)

\* order lists the entries released by the run, first released first.
RECURSIVE CloseRun(_)
CloseRun(s) ==
  IF s = <<>> THEN [rest |-> <<>>, stopped |-> {}, closed |-> 0, order |-> <<>>]
  ELSE LET i == NextOut(s)
           top == s[i]
           r == SubSeq(s, 1, i - 1) \o SubSeq(s, i + 1, Len(s))
       IN IF top[1] = "sess"
          THEN [rest |-> r, stopped |-> {}, closed |-> top[2], order |-> <<top>>]
          ELSE LET x == CloseRun(r)
               IN [x EXCEPT !.stopped = @ \cup {top[2]}, !.order = <<top>> \o @]


\* The next state of the manager, one value per variable. A call that has
\* returned or raised (pc = "done") leaves its coroutine free for the next.
Upd(t, me, ss, es, ini, st, se, rv, po, lo) ==
  /\ task' = [task EXCEPT ![t] = IF me.pc = "done" THEN IdleTask ELSE me]
  /\ last' = IF me.pc = "done" THEN [me EXCEPT !.t = t, !.stk = 0] ELSE IdleTask
  /\ sessions' = ss
  /\ exit_stack' = es
  /\ initialized' = ini
  /\ stacks' = st
  /\ sess' = se
  /\ recv' = rv
  /\ port_owner' = po
  /\ lastOk' = lo
  /\ UNCHANGED registry
  /\ UNCHANGED authvars
  /\ UNCHANGED storevars
  /\ UNCHANGED clivars
  /\ UNCHANGED cmd

Push(st, k, item) == [st EXCEPT ![k] = Append(@, item)]

NoneOk == [n \in RegistryNames |-> 0]

\* ---------------------------------------------------------------- set_state
SetState(t) ==
  /\ Free(t)
  /\ exit_stack = 0 => Len(stacks) < MaxStacks
  /\ state_set' = TRUE
  /\ Upd(t, [IdleTask EXCEPT !.pc = "done", !.op = "set_state"], sessions,
         IF exit_stack = 0 THEN Len(stacks) + 1 ELSE exit_stack, initialized,
         IF exit_stack = 0 THEN Append(stacks, <<>>) ELSE stacks,
         sess, recv, port_owner, lastOk)

\* ------------------------------------------------------------------ cleanup
\* `await self._exit_stack.aclose()` on stack k up to its next suspension.
AClose(k, se) ==
  LET x == CloseRun(stacks[k])
  IN [stacks |-> [stacks EXCEPT ![k] = x.rest],
      sess |-> [s \in 1..Len(se) |->
                  IF s = x.closed THEN [se[s] EXCEPT !.status = "closed"]
                  ELSE se[s]],
      recv |-> StopRecv(recv, x.stopped),
      port |-> FreePort(port_owner, x.stopped),
      suspended |-> x.closed # 0,
      closed |-> x.closed,
      order |-> x.order]

NoClose(se) ==
  [stacks |-> stacks, sess |-> se, recv |-> recv, port |-> port_owner,
   suspended |-> FALSE, closed |-> 0, order |-> <<>>]

\* AsyncExitStack.__aexit__ after an exit callback raised: it goes on with
\* the callbacks left on the stack (k), and raises the exception at the end.
StopClosing(k) == 0

ContinueClosing(k) == k

\* cleanup() from its current position in coroutine t (me: its locals): close
\* stack k (0: self._exit_stack is None); when aclose() has returned, drop the
\* stack, clear the cache and the flag. Inside initialize_all_sessions the
\* error is then re-raised through `async with AuthServer()`, which stops the
\* shared receiver.
ClearedKeepFlag ==
  [sessions |-> NoneOk, exit_stack |-> 0, initialized |-> initialized]

\* The end of cleanup(): self._exit_stack = None; self._sessions.clear();
\* self._initialized = False.
Cleared == [sessions |-> NoneOk, exit_stack |-> 0, initialized |-> FALSE]

CleanupFrom(t, me, k, lo, se) ==
  LET a == IF k # 0 THEN AClose(k, se) ELSE NoClose(se)
      own == IF me.op = "eager" THEN {me.rcv} ELSE {}
  IN IF a.suspended
     THEN Upd(t, [me EXCEPT !.pc = "closing", !.stk = k, !.closing = a.closed,
                            !.rel = @ \o a.order],
              sessions, exit_stack, initialized, a.stacks, a.sess, a.recv, a.port,
              lo)
     ELSE Upd(t, [me EXCEPT !.pc = "done", !.rel = @ \o a.order,
                            !.err = IF me.op = "eager" THEN "init_failed" ELSE "none"],
              Cleared.sessions, Cleared.exit_stack, Cleared.initialized,
              a.stacks, a.sess, StopRecv(a.recv, own), FreePort(a.port, own), lo)

\* The entries of stack k, <<"recv", id>> and <<"sess", id>>, in the order
\* they were pushed.
Held(k) == IF k = 0 THEN <<>> ELSE stacks[k]

\* idx counts the cleanup() calls made in a row (1, or 2 for a repeated one);
\* held records what the stack held when the call began, rel what the call
\* released, in the order it released it, failed the sessions whose exit
\* callback raised (a session is "closed" once its exit callback has run).
BeginCleanup(t) ==
  /\ Free(t)
  /\ UNCHANGED state_set
  /\ CleanupFrom(t, [IdleTask EXCEPT !.op = "cleanup",
                                     !.idx = IF last.pc = "done" /\ last.op = "cleanup"
                                             THEN 2 ELSE 1,
                                     !.held = Held(exit_stack)],
                 exit_stack, NoneOk, sess)

\* The close of a session resumes, normally or by raising: AsyncExitStack
\* keeps the exception, runs the remaining exit callbacks and raises it at the
\* end of aclose(), where cleanup() catches and logs it.
ResumeClosing(t) ==
  /\ task[t].pc = "closing"
  /\ UNCHANGED state_set
  /\ \E ok \in BOOLEAN :
       LET me == task[t]
       IN IF ok
          THEN CleanupFrom(t, me, me.stk, lastOk, sess)
          ELSE CleanupFrom(t, [me EXCEPT !.logged = TRUE,
                                         !.failed = @ \cup {me.closing}],
                           ContinueClosing(me.stk), lastOk, sess)

\* ------------------------------------------------------------- server_names
\* list(self._sessions.keys())
SessionNames == {n \in RegistryNames : sessions[n] # 0}

ServerNamesFromSessions == SessionNames

\* The property server_names: the keys of the registry when _state, its
\* mcp_config and its mcpServers are all truthy, else the keys of the cache.
ServerNames == IF state_set /\ registry # <<>> THEN Known ELSE SessionNames

\* -------------------------------------------------------- initialize_server
\* The except clause of initialize_server: log and raise RuntimeError.
InitFailedMsgNoName(n) == <<"Failed to initialize MCP server">>

InitFailedMsg(n) == <<"Failed to initialize MCP server", n>>

InitFailed(t, me, st) ==
  Upd(t, [me EXCEPT !.pc = "done", !.err = "init_failed",
                    !.msg = InitFailedMsg(me.name)],
      sessions, exit_stack, initialized, st, sess, recv, port_owner, lastOk)

\* get_session_async (viaGet) or initialize_server called for name n, up to the
\* return, the raise or the first await.
BeginAcquire(t, n, viaGet) ==
  /\ Free(t)
  /\ n \in Asked
  /\ UNCHANGED state_set
  /\ LET me == [IdleTask EXCEPT !.op = IF viaGet THEN "get" ELSE "init",
                                !.name = n,
                                !.prev = IF n \in RegistryNames THEN lastOk[n] ELSE 0]
         hit == Upd(t, [me EXCEPT !.pc = "done", !.res = sessions[n]], sessions,
                    exit_stack, initialized, stacks, sess, recv, port_owner,
                    [lastOk EXCEPT ![n] = sessions[n]])
         raise(e, m) == Upd(t, [me EXCEPT !.pc = "done", !.err = e, !.msg = m],
                            sessions, exit_stack, initialized, stacks, sess, recv,
                            port_owner, lastOk)
         k == IF exit_stack = 0 THEN Len(stacks) + 1 ELSE exit_stack
         st == IF exit_stack = 0 THEN Append(stacks, <<>>) ELSE stacks
         r == Len(recv) + 1
     IN IF viaGet /\ CacheHit(n) THEN hit
        ELSE IF ~state_set THEN raise("state_not_set", <<"State not set">>)
        ELSE IF CacheHit(n) THEN hit
        ELSE IF registry = <<>> THEN raise("no_servers", NoServersMsg)
        ELSE IF n \notin Known THEN raise("not_found", NotFoundMsg(n))
        ELSE /\ Room(1)
             /\ exit_stack = 0 => Len(stacks) < MaxStacks
             /\ IF Kind(n) = "other"
                THEN Upd(t, [me EXCEPT !.pc = "done", !.err = "init_failed",
                                       !.msg = InitFailedMsg(n)],
                         sessions, k, initialized, st, sess, recv, port_owner,
                         lastOk)
                ELSE IF Kind(n) = "stdio"
                THEN Upd(t, [me EXCEPT !.pc = "connect", !.stk = k], sessions, k,
                         initialized, st, sess, recv, port_owner, lastOk)
                ELSE /\ Len(recv) < MaxReceivers
                     /\ Upd(t, [me EXCEPT !.pc = "auth_start", !.stk = k, !.rcv = r],
                            sessions, k, initialized, st, sess,
                            Append(recv, Started),
                            IF port_owner = 0 THEN r ELSE port_owner, lastOk)

\* `await self._exit_stack.enter_async_context(auth_server)` resumes: the
\* receiver is pushed on the stack the call was made on; then
\* self._exit_stack is read again for the session context manager.
ResumeAuthStart(t) ==
  /\ task[t].pc = "auth_start"
  /\ UNCHANGED state_set
  /\ LET me == task[t]
         st == Push(stacks, me.stk, <<"recv", me.rcv>>)
     IN IF exit_stack = 0
        THEN InitFailed(t, me, st)
        ELSE Upd(t, [me EXCEPT !.pc = "connect", !.stk = exit_stack], sessions,
                 exit_stack, initialized, st, sess, recv, port_owner, lastOk)

\* `enter_async_context(session_cm)` resumes: the connector failed, or the
\* session is pushed on the stack and session.initialize() is awaited.
ResumeConnect(t) ==
  /\ task[t].pc = "connect"
  /\ UNCHANGED state_set
  /\ \E ok \in BOOLEAN :
       LET me == task[t]
           s == Len(sess) + 1
       IN IF ok
          THEN Upd(t, [me EXCEPT !.pc = "initialize", !.ses = s, !.made = @ + 1],
                   sessions, exit_stack, initialized,
                   Push(stacks, me.stk, <<"sess", s>>),
                   Append(sess, [name |-> me.name, status |-> "open",
                                 recv |-> me.rcv]),
                   recv, port_owner, lastOk)
          ELSE InitFailed(t, me, stacks)

\* `await session.initialize()` resumes: failure, or the session is cached
\* and returned.
ResumeInitialize(t) ==
  /\ task[t].pc = "initialize"
  /\ UNCHANGED state_set
  /\ \E ok \in BOOLEAN :
       LET me == task[t]
       IN IF ok
          THEN Upd(t, [me EXCEPT !.pc = "done", !.res = me.ses],
                   [sessions EXCEPT ![me.name] = me.ses], exit_stack,
                   initialized, stacks, sess, recv, port_owner,
                   [lastOk EXCEPT ![me.name] = me.ses])
          ELSE InitFailed(t, me, stacks)

\* --------------------------------------------------- initialize_all_sessions
\* The except clause of the batch loop: `await self.cleanup()`, then raise.
EagerFailNoCleanup(t, me) ==
  Upd(t, [me EXCEPT !.pc = "done", !.err = "init_failed"], sessions, exit_stack,
      initialized, stacks, sess, StopRecv(recv, {me.rcv}),
      FreePort(port_owner, {me.rcv}), lastOk)

EagerFail(t, me) == CleanupFrom(t, me, exit_stack, lastOk, sess)

BatchReceiverNone(n, r) == 0

\* The receiver handed to the connector of server n in a batch whose
\* `async with AuthServer()` started receiver r: none for a stdio server.
BatchReceiver(n, r) == IF Kind(n) = "stdio" THEN 0 ELSE r

\* The loop body for the i-th configured server up to its first await:
\* self._exit_stack is read for enter_async_context(session_cm).
EagerAttempt(t, me, i, ss) ==
  IF Kind(registry[i]) = "other" \/ exit_stack = 0
  THEN EagerFail(t, [me EXCEPT !.idx = i, !.name = registry[i],
                               !.tried = @ \cup {registry[i]}])
  ELSE Upd(t, [me EXCEPT !.pc = "e_connect", !.idx = i, !.name = registry[i],
                         !.stk = exit_stack, !.tried = @ \cup {registry[i]}],
           ss, exit_stack, initialized, stacks, sess, recv, port_owner, lastOk)

BeginEager(t) ==
  /\ Free(t)
  /\ UNCHANGED state_set
  /\ LET me == [IdleTask EXCEPT !.op = "eager"]
         k == Len(stacks) + 1
         r == Len(recv) + 1
     IN IF initialized \/ registry = <<>>
        THEN Upd(t, [me EXCEPT !.pc = "done"], sessions, exit_stack, initialized,
                 stacks, sess, recv, port_owner, lastOk)
        ELSE /\ Room(Len(registry))
             /\ Len(stacks) < MaxStacks
             /\ Len(recv) < MaxReceivers
             /\ Upd(t, [me EXCEPT !.pc = "e_start", !.rcv = r], sessions, k,
                    initialized, Append(stacks, <<>>), sess,
                    Append(recv, Started),
                    IF port_owner = 0 THEN r ELSE port_owner, NoneOk)

\* `async with AuthServer()` has started the shared receiver.
ResumeEagerStart(t) ==
  /\ task[t].pc = "e_start"
  /\ UNCHANGED state_set
  /\ EagerAttempt(t, task[t], 1, sessions)

ResumeEagerConnect(t) ==
  /\ task[t].pc = "e_connect"
  /\ UNCHANGED state_set
  /\ \E ok \in BOOLEAN :
       LET me == task[t]
           s == Len(sess) + 1
       IN IF ok
          THEN Upd(t, [me EXCEPT !.pc = "e_initialize", !.ses = s,
                                 !.made = @ + 1, !.batch = @ \cup {s}],
                   sessions, exit_stack, initialized,
                   Push(stacks, me.stk, <<"sess", s>>),
                   Append(sess, [name |-> me.name, status |-> "open",
                                 recv |-> BatchReceiver(me.name, me.rcv)]),
                   recv, port_owner, lastOk)
          ELSE EagerFail(t, me)

\* `await session.initialize()` resumes in the batch: failure, or the session
\* is cached and the loop goes on; after the last server the shared receiver
\* is stopped and the manager is marked initialised.
ResumeEagerInitialize(t) ==
  /\ task[t].pc = "e_initialize"
  /\ UNCHANGED state_set
  /\ \E ok \in BOOLEAN :
       LET me == task[t]
           ss == [sessions EXCEPT ![me.name] = me.ses]
       IN IF ~ok THEN EagerFail(t, me)
          ELSE IF me.idx < Len(registry)
          THEN EagerAttempt(t, me, me.idx + 1, ss)
          ELSE Upd(t, [me EXCEPT !.pc = "done"], ss, exit_stack, TRUE, stacks,
                   sess, StopRecv(recv, {me.rcv}), FreePort(port_owner, {me.rcv}),
                   lastOk)


\* =============================================================== AuthServer
\* The query strings a browser may send to /callback: code and state, or an
\* error with or without error_description (and possibly a code).
Requests ==
  {[code |-> "", state |-> "none", error |-> "", desc |-> "none"]}
  \cup {[code |-> "abc123", state |-> st, error |-> "", desc |-> "none"] :
          st \in {"none", "xyz"}}
  \cup {[code |-> c, state |-> "none", error |-> "access_denied", desc |-> d] :
          c \in {"", "abc123"}, d \in {"none", "", "User declined"}}

\* Exception(f"OAuth error: {error} - {error_description}"), where
\* error_description = query_params.get("error_description", "Unknown error")
OAuthError(q) ==
  <<"exc", "OAuth error", q.error, IF q.desc = "none" THEN "Unknown error" ELSE q.desc>>

NoCodeError == <<"exc", "No authorization code received">>

\* The three branches of callback_endpoint: what it resolves the future with
\* and the status of its HTMLResponse.
Branch(q) ==
  IF q.error # "" THEN "error" ELSE IF q.code = "" THEN "no_code" ELSE "ok"

Resolution(q) ==
  CASE Branch(q) = "error" -> [kind |-> "set_exception", val |-> OAuthError(q)]
    [] Branch(q) = "no_code" -> [kind |-> "set_exception", val |-> NoCodeError]
    [] OTHER -> [kind |-> "set_result", val |-> <<"ok", q.code, q.state>>]

Status(q) == IF Branch(q) = "ok" THEN 200 ELSE 400

\* thr and stale are history: the thread that ran set_result / set_exception
\* on the future, and whether the handler behind it had checked another
\* future (an earlier wait) when its request arrived.
NewFuture ==
  [st |-> "pending", val |-> <<>>, nsched |-> 0, dup |-> FALSE, out |-> <<>>,
   pend |-> {}, thr |-> "", stale |-> FALSE]

\* The main thread runs one coroutine step at a time: "loop" between steps.
MainFree == co.mt = "loop"

AuthUpd(lst, cf, cc, cs, ml, fu, rd, c, hh, rs, nr) ==
  /\ listening' = lst
  /\ cb_future' = cf
  /\ cb_code' = cc
  /\ cb_state' = cs
  /\ main_loop' = ml
  /\ fut' = fu
  /\ ready' = rd
  /\ co' = c
  /\ h' = hh
  /\ resp' = rs
  /\ nreq' = nr
  /\ UNCHANGED <<server, server_thread, threads>>
  /\ acall' = NoLifeCall
  /\ UNCHANGED mgrvars
  /\ UNCHANGED storevars
  /\ UNCHANGED clivars
  /\ UNCHANGED cmd

\* The next state after a step of start() or stop().
LifeUpd(lst, cf, cc, cs, ml, c, srv, thr, ths, ac) ==
  /\ listening' = lst
  /\ cb_future' = cf
  /\ cb_code' = cc
  /\ cb_state' = cs
  /\ main_loop' = ml
  /\ co' = c
  /\ server' = srv
  /\ server_thread' = thr
  /\ threads' = ths
  /\ acall' = ac
  /\ resp' = NoResponse
  /\ UNCHANGED <<fut, ready, h, nreq>>
  /\ UNCHANGED mgrvars
  /\ UNCHANGED storevars
  /\ UNCHANGED clivars
  /\ UNCHANGED cmd

\* ------------------------------------------------------------- main thread
\* server_thread.is_alive() of the thread the receiver holds.
ThreadAlive == server_thread # 0 /\ threads[server_thread] = "alive"

AlreadyRunningNever == FALSE

\* `if self.server_thread and self.server_thread.is_alive()`
AlreadyRunning == ThreadAlive

\* start(): a no-op when the listener thread is alive; otherwise a new
\* uvicorn.Server and a new thread, which serves if it can bind the port and
\* exits if it cannot.
Start ==
  /\ MainFree
  /\ LET ac == [op |-> "start", running |-> ThreadAlive, cold |-> FALSE]
         n == Len(threads) + 1
     IN IF AlreadyRunning
        THEN LifeUpd(listening, cb_future, cb_code, cb_state, main_loop, co,
                     server, server_thread, threads, ac)
        ELSE /\ Len(threads) < MaxThreads
             /\ \E ok \in BOOLEAN :
                  LifeUpd(ok, cb_future, cb_code, cb_state, main_loop, co, n, n,
                          Append(threads, IF ok THEN "alive" ELSE "exited"), ac)

\* stop(): should_exit and join(timeout=1.0): the listener accepts no further
\* request; the join may time out with a request still being handled.
StopJoin ==
  /\ MainFree
  /\ LifeUpd(FALSE, cb_future, cb_code, cb_state, main_loop,
             [co EXCEPT !.mt = "joined",
                        !.cold = (server = 0 /\ server_thread = 0)],
             server, server_thread,
             IF ThreadAlive /\ h.pc = "idle"
             THEN [threads EXCEPT ![server_thread] = "exited"] ELSE threads,
             NoLifeCall)

\* stop(): _callback_code, _callback_state and _callback_future are cleared.
StopClear ==
  /\ co.mt = "joined"
  /\ LifeUpd(listening, 0, "none", "none", main_loop, [co EXCEPT !.mt = "stop"],
             server, server_thread, threads, NoLifeCall)

\* stop(): _main_loop, server and server_thread are cleared; the call returns.
StopEnd ==
  /\ co.mt = "stop"
  /\ LifeUpd(listening, cb_future, cb_code, cb_state, FALSE,
             [co EXCEPT !.mt = "loop", !.cold = FALSE], 0, 0, threads,
             [op |-> "stop", running |-> FALSE, cold |-> co.cold])

\* handle_callback() up to `await self._callback_future`.
HandleCallback ==
  /\ MainFree
  /\ co.pc = "idle"
  /\ Len(fut) < MaxWaits
  /\ AuthUpd(listening, Len(fut) + 1, cb_code, cb_state, TRUE,
             Append(fut, NewFuture), ready,
             [co EXCEPT !.pc = "waiting", !.f = Len(fut) + 1], h, NoResponse, nreq)

\* The main loop's entry that resumes the coroutine awaiting future f.
Wakeup(f) == [kind |-> "wakeup", f |-> f, val |-> <<>>, seen |-> f]

\* The task waiting in handle_callback is cancelled (interrupt, shutdown).
Cancel ==
  /\ MainFree
  /\ co.pc = "waiting"
  /\ fut[co.f].st = "pending"
  /\ AuthUpd(listening, cb_future, cb_code, cb_state, main_loop,
             [fut EXCEPT ![co.f].st = "cancelled"],
             Append(ready, Wakeup(co.f)),
             co, h, NoResponse, nreq)

\* The main loop runs the next scheduled callback: Future.set_result /
\* set_exception (InvalidStateError if the future is already done), or the
\* wake-up of the coroutine awaiting the future, which runs handle_callback
\* to the first assignment of its finally block.
LoopRun ==
  /\ MainFree
  /\ ready # <<>>
  /\ LET e == Head(ready)
         f == e.f
     IN IF e.kind = "wakeup"
        THEN AuthUpd(listening, 0, cb_code, cb_state, main_loop,
                     [fut EXCEPT ![f].out = IF fut[f].st = "cancelled"
                                            THEN <<"cancelled">> ELSE fut[f].val],
                     Tail(ready), [co EXCEPT !.mt = "finally"], h, NoResponse, nreq)
        ELSE IF fut[f].st = "pending"
        THEN AuthUpd(listening, cb_future, cb_code, cb_state, main_loop,
                     [fut EXCEPT ![f].st = "done", ![f].val = e.val,
                                 ![f].thr = "loop", ![f].stale = e.seen # f],
                     IF co.pc = "waiting" /\ co.f = f
                     THEN Append(Tail(ready), Wakeup(f))
                     ELSE Tail(ready),
                     co, h, NoResponse, nreq)
        ELSE AuthUpd(listening, cb_future, cb_code, cb_state, main_loop,
                     [fut EXCEPT ![f].dup = TRUE], Tail(ready), co, h,
                     NoResponse, nreq)

\* The second assignment of handle_callback's finally block, then the return
\* or the raise.
Finally ==
  /\ co.mt = "finally"
  /\ AuthUpd(listening, cb_future, cb_code, cb_state, FALSE, fut, ready,
             IdleCo, h, NoResponse, nreq)

\* --------------------------------------------------------- listener thread
\* callback_endpoint returns its HTMLResponse with the given status; an
\* AttributeError escaping it (None.done(), None.call_soon_threadsafe, ...) is
\* answered by the framework with status 500.
Respond(status, scheduled, fu, rd) ==
  AuthUpd(listening, cb_future, cb_code, cb_state, main_loop, fu, rd, co,
          IdleHandler,
          [status |-> status, q |-> h.q, arr |-> h.arr, arrf |-> h.arrf,
           scheduled |-> scheduled],
          nreq)

Goto(pc) ==
  AuthUpd(listening, cb_future, cb_code, cb_state, main_loop, fut, ready, co,
          [h EXCEPT !.pc = pc], NoResponse, nreq)

\* A request reaches callback_endpoint; the query parameters are read.
Receive(q) ==
  /\ h.pc = "idle"
  /\ listening
  /\ nreq < MaxRequests
  /\ AuthUpd(listening, cb_future, cb_code, cb_state, main_loop, fut, ready, co,
             [IdleHandler EXCEPT !.pc = IF Branch(q) = "ok" THEN "store" ELSE "check",
                                 !.q = q],
             NoResponse, nreq + 1)

\* self._callback_code = code; self._callback_state = state
Store ==
  /\ h.pc = "store"
  /\ AuthUpd(listening, cb_future, h.q.code, h.q.state, main_loop, fut, ready, co,
             [h EXCEPT !.pc = "check"], NoResponse, nreq)

\* `if self._callback_future` (first read of the attribute). The request is
\* classified by what it finds: no wait, a pending wait, a resolved wait.
CheckFuture ==
  /\ h.pc = "check"
  /\ LET f == cb_future
         arr == IF f = 0 THEN "none"
                ELSE IF fut[f].st = "pending" THEN "pending" ELSE "resolved"
         hh == [h EXCEPT !.pc = "done?", !.arr = arr, !.arrf = f]
     IN IF f = 0
        THEN AuthUpd(listening, cb_future, cb_code, cb_state, main_loop, fut,
                     ready, co, IdleHandler,
                     [status |-> Status(h.q), q |-> h.q, arr |-> arr, arrf |-> f,
                      scheduled |-> FALSE],
                     nreq)
        ELSE AuthUpd(listening, cb_future, cb_code, cb_state, main_loop,
                     IF arr = "pending"
                     THEN [fut EXCEPT ![f].pend = @ \cup {h.q}] ELSE fut,
                     ready, co, hh, NoResponse, nreq)

\* `and not self._callback_future.done()` (second read of the attribute).
CheckDone ==
  /\ h.pc = "done?"
  /\ IF cb_future = 0 THEN Respond(500, FALSE, fut, ready)
     ELSE IF fut[cb_future].st # "pending" THEN Respond(Status(h.q), FALSE, fut, ready)
     ELSE Goto("loop?")

\* `if self._main_loop` (first read of the attribute).
CheckLoop ==
  /\ h.pc = "loop?"
  /\ IF main_loop THEN Goto("call") ELSE Respond(Status(h.q), FALSE, fut, ready)

\* `self._main_loop.call_soon_threadsafe(` (second read of the attribute).
LoadLoop ==
  /\ h.pc = "call"
  /\ IF main_loop THEN Goto("schedule") ELSE Respond(500, FALSE, fut, ready)

\* `self._callback_future.set_result` / `.set_exception` (third read of the
\* attribute), then the call enqueues the resolution on the main loop.
HandoffDirect == "direct"

\* How the handler hands the resolution over: call_soon_threadsafe on the
\* loop it read from self._main_loop.
Handoff == "call_soon_threadsafe"

Schedule ==
  /\ h.pc = "schedule"
  /\ LET f == cb_future
         r == Resolution(h.q)
     IN IF f = 0 THEN Respond(500, FALSE, fut, ready)
        ELSE IF Handoff = "call_soon_threadsafe"
        THEN Respond(Status(h.q), TRUE, [fut EXCEPT ![f].nsched = @ + 1],
                     Append(ready, [kind |-> r.kind, f |-> f, val |-> r.val,
                                    seen |-> h.arrf]))
        ELSE Respond(Status(h.q), TRUE,
                     [fut EXCEPT ![f].nsched = @ + 1, ![f].st = "done",
                                 ![f].val = r.val, ![f].thr = "listener",
                                 ![f].stale = h.arrf # f],
                     IF co.pc = "waiting" /\ co.f = f
                     THEN Append(ready, Wakeup(f)) ELSE ready)


\* ============================================== KeychainTokenStorageWithFallback
\* The OAuthToken and OAuthClientInformationFull objects a caller may store;
\* "none" stands for None (an optional field that is not set).
Tokens ==
  {[access_token |-> "at1", refresh_token |-> "none"],
   [access_token |-> "at2", refresh_token |-> "rt1"]}

ClientInfos == {[client_id |-> "cid1", client_secret |-> "none"]}

Values(rec) == IF rec = "tokens" THEN Tokens ELSE ClientInfos

\* json.dumps(obj.model_dump()): every field becomes a JSON member, None
\* becomes null.
JsonField(v) == IF v = "none" THEN "null" ELSE v

DumpNoOptional(rec, v) ==
  IF rec = "tokens"
  THEN [access_token |-> v.access_token, refresh_token |-> "null"]
  ELSE [client_id |-> v.client_id, client_secret |-> "null"]

Dump(rec, v) ==
  IF rec = "tokens"
  THEN [access_token |-> JsonField(v.access_token),
        refresh_token |-> JsonField(v.refresh_token)]
  ELSE [client_id |-> JsonField(v.client_id),
        client_secret |-> JsonField(v.client_secret)]

\* OAuthToken(**json.loads(text)) / OAuthClientInformationFull(**...).
ObjField(j) == IF j = "null" THEN "none" ELSE j

Load(rec, d) ==
  IF rec = "tokens"
  THEN [access_token |-> ObjField(d.access_token),
        refresh_token |-> ObjField(d.refresh_token)]
  ELSE [client_id |-> ObjField(d.client_id),
        client_secret |-> ObjField(d.client_secret)]

\* Permission bits of the file. os.open(..., stat.S_IRUSR | stat.S_IWUSR)
\* creates it with the requested bits less the process's umask.
OwnerOnly == {"ur", "uw"}

CreateModeDefault == {"ur", "uw", "gr", "gw", "or", "ow"}

CreateMode == OwnerOnly

Umasks == {{}, {"gw", "ow"}}

\* `if self.keychain_enabled:`
UseKeychainAlways(i) == TRUE

UseKeychain(i) == enabled[i]

\* `self.keychain_enabled = False` in the except clauses.
DowngradeNot(en, i) == en

Downgrade(en, i) == [en EXCEPT ![i] = FALSE]

\* existing_data.update(update_data)
MergeOverwrite(data, rec, doc) ==
  [r \in StoreRecords |-> IF r = rec THEN doc ELSE Absent]

Merge(data, rec, doc) == [data EXCEPT ![rec] = doc]

\* The record the file holds, as _get_tokens_from_file /
\* _get_client_info_from_file return it when nothing fails.
FileRecord(rec) ==
  IF ~file.exists \/ file.data[rec] = Absent THEN None
  ELSE Load(rec, file.data[rec])

StoreUpd(k, f, en, pr, ls, sl) ==
  /\ kc' = k
  /\ file' = f
  /\ enabled' = en
  /\ probe' = pr
  /\ lastSet' = ls
  /\ slast' = sl
  /\ UNCHANGED umask
  /\ UNCHANGED mgrvars
  /\ UNCHANGED authvars
  /\ UNCHANGED clivars
  /\ UNCHANGED cmd

\* __init__: keychain_enabled = True, then _test_keychain_availability()
\* clears it if keyring.get_password raises.
NewStore ==
  /\ Len(enabled) < MaxStores
  /\ \E ok \in BOOLEAN :
       StoreUpd(kc, file, Append(enabled, ok), Append(probe, ok), lastSet,
                [NoCall EXCEPT !.op = "new", !.inst = Len(enabled) + 1])

\* _get_tokens_from_file / _get_client_info_from_file for call c: None when
\* the file does not exist or has no such record, the record otherwise; an
\* exception (open or json.load failing) is logged and None is returned.
ReadFile(c, en) ==
  \E fok \in IF file.exists /\ file.valid THEN BOOLEAN ELSE {TRUE} :
    LET bad == file.exists /\ (~fok \/ ~file.valid)
    IN StoreUpd(kc, file, en, probe, lastSet,
                [c EXCEPT !.file_read = TRUE, !.file_fault = bad,
                          !.res = IF bad THEN None ELSE FileRecord(c.rec)])

\* get_tokens / get_client_info on instance i.
Get(i, rec) ==
  LET c == [NoCall EXCEPT !.op = "get", !.rec = rec, !.inst = i,
                          !.en_before = enabled[i]]
  IN IF UseKeychain(i)
     THEN \E kok \in BOOLEAN :
            IF ~kok
            THEN ReadFile([c EXCEPT !.kc_calls = 1, !.kc_raised = TRUE],
                          Downgrade(enabled, i))
            ELSE IF kc[rec] # None
            THEN StoreUpd(kc, file, enabled, probe, lastSet,
                          [c EXCEPT !.kc_calls = 1, !.res = Load(rec, kc[rec])])
            ELSE ReadFile([c EXCEPT !.kc_calls = 1], enabled)
     ELSE ReadFile(c, enabled)

\* The history of set_tokens: the value and the tier it was stored in, or
\* nothing when the call raised.
NoteSet(c, tier) ==
  IF c.rec # "tokens" THEN lastSet
  ELSE IF tier = "" THEN NoSet
  ELSE [val |-> c.arg, inst |-> c.inst, tier |-> tier, stores |-> Len(enabled)]

\* _update_file_data for call c. how = "early": mkdir, the read of the
\* existing file (always, when it does not hold a JSON document) or os.open
\* fails, the file is as before; "late": the file is created or truncated and
\* json.dump fails; "ok": the merged document is written. Every failure is
\* logged and re-raised.
UpdateFile(c, en) ==
  \E how \in IF file.exists /\ ~file.valid THEN {"early"}
              ELSE {"ok", "early", "late"} :
    LET c1 == [c EXCEPT !.file_read = TRUE, !.rewrite = file.exists]
        old == IF file.exists THEN file.data ELSE NoFile.data
        mode == IF file.exists THEN file.mode ELSE CreateMode \ umask
        doc == Dump(c.rec, c.arg)
    IN IF how = "early"
       THEN StoreUpd(kc, file, en, probe, NoteSet(c, ""),
                     [c1 EXCEPT !.file_fault = TRUE, !.err = "file"])
       ELSE IF how = "late"
       THEN StoreUpd(kc, [exists |-> TRUE, valid |-> FALSE, mode |-> mode,
                          data |-> NoFile.data],
                     en, probe, NoteSet(c, ""),
                     [c1 EXCEPT !.file_written = TRUE, !.file_fault = TRUE,
                                !.err = "file"])
       ELSE StoreUpd(kc, [exists |-> TRUE, valid |-> TRUE, mode |-> mode,
                          data |-> Merge(old, c.rec, doc)],
                     en, probe, NoteSet(c, "file"),
                     [c1 EXCEPT !.file_written = TRUE])

\* set_tokens / set_client_info on instance i.
Set(i, rec, v) ==
  LET c == [NoCall EXCEPT !.op = "set", !.rec = rec, !.inst = i, !.arg = v,
                          !.en_before = enabled[i]]
  IN IF UseKeychain(i)
     THEN \E kok \in BOOLEAN :
            IF kok
            THEN StoreUpd([kc EXCEPT ![rec] = Dump(rec, v)], file, enabled, probe,
                          NoteSet(c, "keychain"),
                          [c EXCEPT !.kc_calls = 1])
            ELSE UpdateFile([c EXCEPT !.kc_calls = 1, !.kc_raised = TRUE],
                            Downgrade(enabled, i))
     ELSE UpdateFile(c, enabled)

\* -------------------------------------------------------------- the cxk CLI
\* Each command is one process: it builds a State over the project's
\* .cxk/mcp.json, runs its handler and exits.
CliNames == {"s1", "s2"}

Urls == {"u1", "u2"}

\* The command line after `--`: the command alone, or with one argument.
CommandLines == {<<"cmd">>, <<"cmd", "arg">>}

\* The --env options: none, one KEY=VALUE (<<key, value>>), one without "=".
EnvOptions == {<<>>, << <<"K", "V">> >>, << <<"KV">> >>}

Some(x) == [some |-> x]

ConfigFields == {"type", "url", "command", "args", "env", "headers"}

NoConfig == [f \in ConfigFields |-> None]

\* SSEServerConfig(url=url)
SSEServerConfig(url) == [NoConfig EXCEPT !.type = Some("sse"), !.url = Some(url)]

\* StdioServerConfig(command=cmd, args=args, env=env)
StdioServerConfig(command, args, env) ==
  [NoConfig EXCEPT !.type = Some("stdio"), !.command = Some(command), !.args = args,
                   !.env = env]

\* HTTPServerConfig(url=url, headers=headers)
HTTPServerConfig(url, headers) ==
  [NoConfig EXCEPT !.type = Some("http"), !.url = Some(url), !.headers = headers]

\* model_dump(exclude_none=True) of one server entry: the fields that are
\* not None.
DumpConfig(c) == [f \in {g \in ConfigFields : c[g] # None} |-> c[f]]

\* MCPServersConfig(**data) for one entry: the class its "type" names, the
\* fields the entry lacks are None.
LoadConfig(d) == [f \in ConfigFields |-> IF f \in DOMAIN d THEN d[f] ELSE None]

NoServers == [n \in {} |-> NoConfig]

\* State.is_initialized: the registry file exists.
IsInitialized == mcp_json # Absent

\* State._load_mcp_config: the servers of the file, none without a file.
LoadMcpConfig ==
  IF IsInitialized
  THEN [n \in DOMAIN mcp_json.mcpServers |-> LoadConfig(mcp_json.mcpServers[n])]
  ELSE NoServers

\* State.save_mcp_config: the file rewritten from the loaded registry.
SaveMcpConfig(reg) == [mcpServers |-> [n \in DOMAIN reg |-> DumpConfig(reg[n])]]

CliUpd(f, c) ==
  /\ mcp_json' = f
  /\ cli' = c
  /\ UNCHANGED cmd
  /\ UNCHANGED mgrvars
  /\ UNCHANGED authvars
  /\ UNCHANGED storevars

Command(command, n) ==
  [NoCommand EXCEPT !.cmd = command, !.name = n, !.init = IsInitialized]

\* main: the handler returned; the process ends with status 0.
Returns(c, out) == CliUpd(mcp_json, [c EXCEPT !.exit = 0, !.out = out])

\* main: `except Exception as e` prints "Error: <e>" on stderr and exits 1.
Raises(c, e) == CliUpd(mcp_json, [c EXCEPT !.exit = 1, !.err = <<"Error:">> \o e])

NotInitializedMsg == <<"Project not initialized. Run 'cxk init' first.">>

AlreadyExistsMsg(n) == <<"Server already exists", n>>

InvalidEnvMsg == <<"Invalid environment variable format. Use KEY=VALUE format.">>

\* handle_init
HandleInit ==
  IF IsInitialized
  THEN Returns(Command("init", ""), <<"Project is already initialized!">>)
  ELSE CliUpd(SaveMcpConfig(LoadMcpConfig),
              [Command("init", "") EXCEPT
                 !.out = <<"ContextKit project initialized successfully!">>])

ExistsNever(n, reg) == FALSE

\* `server_name in state.mcp_config.mcpServers`
Exists(n, reg) == n \in DOMAIN reg

\* The body shared by handle_add_sse, handle_add_stdio and handle_add_http:
\* the duplicate check, then the entry is put in the loaded registry and
\* the registry is saved.
AddServer(c, n, config) ==
  IF Exists(n, LoadMcpConfig)
  THEN Raises(c, AlreadyExistsMsg(n))
  ELSE CliUpd(SaveMcpConfig([m \in DOMAIN LoadMcpConfig \cup {n} |->
                               IF m = n THEN config ELSE LoadMcpConfig[m]]),
              [c EXCEPT !.out = <<"Added server", n>>])

\* handle_mcp_command on a project that is not initialised: the message is
\* printed and the handler returns.
NotInitialized(c) == Returns(c, NotInitializedMsg)

\* cxk mcp add-sse <name> <url>
AddSse(n, url) ==
  IF ~IsInitialized
  THEN NotInitialized(Command("add-sse", n))
  ELSE AddServer(Command("add-sse", n), n, SSEServerConfig(url))

WellFormed(env) == \A i \in 1..Len(env) : Len(env[i]) = 2

\* env_dict of handle_mcp_command: {} when there is no --env.
EnvDict(env) == {env[i] : i \in 1..Len(env)}

\* cxk mcp add-stdio <name> [--env K=V] -- <command line>
AddStdio(n, cl, env) ==
  IF ~IsInitialized
  THEN NotInitialized(Command("add-stdio", n))
  ELSE IF ~WellFormed(env)
  THEN Raises(Command("add-stdio", n), InvalidEnvMsg)
  ELSE AddServer(Command("add-stdio", n), n,
                 StdioServerConfig(cl[1],
                                   IF Len(cl) > 1 THEN Some(Tail(cl)) ELSE None,
                                   Some(EnvDict(env))))

\* cxk mcp add-http <name> <url>: main passes no headers.
AddHttp(n, url) ==
  IF ~IsInitialized
  THEN NotInitialized(Command("add-http", n))
  ELSE AddServer(Command("add-http", n), n, HTTPServerConfig(url, None))

\* --------------------------------------------------------- cxk create-spec
\* handle_create_spec on the process's session manager, run by coroutine t1.
CmdUpd(c) ==
  /\ cmd' = c
  /\ UNCHANGED mgrvars
  /\ UNCHANGED authvars
  /\ UNCHANGED storevars
  /\ UNCHANGED clivars

\* Where the template comes from: a file that exists, a path without a
\* file, piped input (readable, failing, empty), neither, and a template
\* that the engine's constructor rejects.
TemplateSources ==
  {"file", "missing_file", "stdin", "stdin_error", "stdin_empty", "no_input",
   "rejected"}

AfterExitEnded == "ended"

\* sys.exit() raises SystemExit inside the outer try: the finally block runs
\* before the command ends.
AfterExit == "finally"

Exit(code, how) == [cmd EXCEPT !.pc = AfterExit, !.exit = code, !.how = how]

\* The body is left by its end or by an exception that is not caught in it.
Leave(how) == [cmd EXCEPT !.pc = "finally", !.how = how]

\* session_manager = get_session_manager(); the try block is entered.
BeginCreateSpec ==
  /\ cmd.pc = "idle"
  /\ CmdUpd([NoRun EXCEPT !.pc = "set_state"])

\* session_manager.set_state(state)
CreateSpecSetState ==
  /\ cmd.pc = "set_state"
  /\ ~state_set
  /\ SetState("t1")

\* The template source is determined and the engine is built.
ChooseTemplate(src) ==
  /\ cmd.pc = "set_state"
  /\ state_set
  /\ IF src \in {"file", "stdin"}
     THEN CmdUpd([cmd EXCEPT !.pc = "variables"])
     ELSE IF src = "rejected" THEN CmdUpd(Leave(src))
     ELSE CmdUpd(Exit(1, src))

\* get_variables() and the --var overrides: a TemplateParseError or an
\* override without "=" exits with status 1.
ReadVariables(how) ==
  /\ cmd.pc = "variables"
  /\ IF how = "ok" THEN CmdUpd([cmd EXCEPT !.pc = "collect"])
     ELSE CmdUpd(Exit(1, how))

\* collect_var_value_interactive asks the manager for a session:
\* `await session_manager.get_session_async(server_name)`.
CollectAcquire(n) ==
  /\ cmd.pc = "collect"
  /\ BeginAcquire("t1", n, TRUE)

\* An exception during the collection (a failed acquisition, a failed tool
\* call, an invalid choice) reaches `except Exception`: sys.exit(1).
CollectFails ==
  /\ cmd.pc = "collect"
  /\ Free("t1")
  /\ CmdUpd(Exit(1, "exception"))

Collected ==
  /\ cmd.pc = "collect"
  /\ Free("t1")
  /\ CmdUpd([cmd EXCEPT !.pc = "render"])

\* render_async and the output: done, TemplateParseError, another exception.
Render(how) ==
  /\ cmd.pc = "render"
  /\ IF how = "rendered" THEN CmdUpd(Leave(how)) ELSE CmdUpd(Exit(1, how))

\* The call the manager returned from in the last step was cleanup().
CleanupReturned == last.pc = "done" /\ last.op = "cleanup"

\* finally: await session_manager.cleanup()
FinalCleanup ==
  /\ cmd.pc = "finally"
  /\ ~CleanupReturned
  /\ BeginCleanup("t1")

\* cleanup() has returned: handle_create_spec ends, by returning or with
\* the SystemExit or the exception that left the body.
EndCreateSpec ==
  /\ cmd.pc = "finally"
  /\ CleanupReturned
  /\ CmdUpd([cmd EXCEPT !.pc = "ended"])

\* ------------------------------------------------------------ specifications
MgrStep(t) ==
  \/ SetState(t)
  \/ \E n \in Names, viaGet \in BOOLEAN : BeginAcquire(t, n, viaGet)
  \/ ResumeAuthStart(t)
  \/ ResumeConnect(t)
  \/ ResumeInitialize(t)
  \/ BeginEager(t)
  \/ ResumeEagerStart(t)
  \/ ResumeEagerConnect(t)
  \/ ResumeEagerInitialize(t)
  \/ BeginCleanup(t)
  \/ ResumeClosing(t)

Next == MgrStep("t1")

Spec == Init /\ [][Next]_vars

\* Two coroutines sharing the manager after set_state(), as in
\* handle_create_spec: on-demand acquisition and cleanup only.
ConcInit ==
  /\ AuthInit
  /\ StoreIdle
  /\ umask = {}
  /\ CliIdle
  /\ registry = Registry
  /\ state_set = TRUE
  /\ sessions = NoneOk
  /\ exit_stack = 1
  /\ initialized = FALSE
  /\ stacks = << <<>> >>
  /\ sess = <<>>
  /\ recv = <<>>
  /\ port_owner = 0
  /\ task = [t \in Tasks |-> IdleTask]
  /\ lastOk = NoneOk
  /\ last = IdleTask

ConcRoom == Len(sess) + Need("t1") + Need("t2") <= MaxConcSessions

ConcStep(t) ==
  \/ \E n \in Names, viaGet \in BOOLEAN : BeginAcquire(t, n, viaGet) /\ ConcRoom'
  \/ ResumeAuthStart(t)
  \/ ResumeConnect(t)
  \/ ResumeInitialize(t)
  \/ BeginCleanup(t)
  \/ ResumeClosing(t)

ConcNext == \E t \in Tasks : ConcStep(t)

ConcSpec == ConcInit /\ [][ConcNext]_vars

AuthNext ==
  \/ Start
  \/ StopJoin
  \/ StopClear
  \/ StopEnd
  \/ HandleCallback
  \/ Cancel
  \/ LoopRun
  \/ Finally
  \/ \E q \in Requests : Receive(q)
  \/ Store
  \/ CheckFuture
  \/ CheckDone
  \/ CheckLoop
  \/ LoadLoop
  \/ Schedule

\* One AuthServer on its own: the manager is idle and its registry is fixed.
AuthServerInit == Init /\ registry = Registry

AuthSpec == AuthServerInit /\ [][AuthNext]_vars

\* The steps of callback_endpoint once a request has been received.
HandlerStep == Store \/ CheckFuture \/ CheckDone \/ CheckLoop \/ LoadLoop \/ Schedule

\* AuthSpec with the progress the runtime gives: the event loop runs every
\* callback scheduled on it (its ready queue is FIFO, so other calls made on
\* the loop cannot starve one) and resumes a coroutine whose future is done,
\* a started stop() runs to its end, and the listener thread finishes a
\* request it has received. Calls from outside (start, stop, handle_callback,
\* a cancellation, a browser request) may or may not happen.
AuthLiveSpec ==
  /\ AuthSpec
  /\ SF_vars(LoopRun)
  /\ WF_vars(Finally)
  /\ WF_vars(StopClear)
  /\ WF_vars(StopEnd)
  /\ WF_vars(HandlerStep)

CliNext ==
  \/ HandleInit
  \/ \E n \in CliNames, url \in Urls : AddSse(n, url)
  \/ \E n \in CliNames, cl \in CommandLines, env \in EnvOptions : AddStdio(n, cl, env)
  \/ \E n \in CliNames, url \in Urls : AddHttp(n, url)

\* The commands run one after another in one project.
CliInit == Init /\ registry = Registry

CliSpec == CliInit /\ [][CliNext]_vars

CreateSpecNext ==
  \/ BeginCreateSpec
  \/ CreateSpecSetState
  \/ \E src \in TemplateSources : ChooseTemplate(src)
  \/ \E how \in {"ok", "parse_error", "invalid_var"} : ReadVariables(how)
  \/ \E n \in Names : CollectAcquire(n)
  \/ ResumeAuthStart("t1")
  \/ ResumeConnect("t1")
  \/ ResumeInitialize("t1")
  \/ CollectFails
  \/ Collected
  \/ \E how \in {"rendered", "parse_error", "exception"} : Render(how)
  \/ FinalCleanup
  \/ ResumeClosing("t1")
  \/ EndCreateSpec

\* One create-spec command in a fresh process, for each registry.
CreateSpecInit == Init /\ cmd = NoRun

CreateSpecSpec == CreateSpecInit /\ [][CreateSpecNext]_vars

Stores == 1..Len(enabled)

StoreNext ==
  \/ NewStore
  \/ \E i \in Stores, rec \in StoreRecords : Get(i, rec)
  \/ \E i \in Stores, rec \in StoreRecords : \E v \in Values(rec) : Set(i, rec, v)

\* The stores of one server under a process umask.
StoreInit ==
  /\ AuthInit
  /\ MgrInit
  /\ registry = Registry
  /\ StoreIdle
  /\ umask \in Umasks
  /\ CliIdle

StoreSpec == StoreInit /\ [][StoreNext]_vars

\* ------------------------------------------------------------------- claims
Acquiring == {"get", "init"}

Returned(ops) == last.pc = "done" /\ last.op \in ops

C2_SingleFlightPerName ==
  \A n \in RegistryNames :
    /\ Cardinality({t \in Tasks : /\ task[t].pc \in {"auth_start", "connect", "initialize"}
                                  /\ task[t].name = n}) <= 1
    /\ Cardinality({s \in 1..Len(sess) : sess[s].name = n /\ sess[s].status = "open"}) <= 1

\* C3: after cleanup() returns the session cache is empty and every callback
\* receiver the manager started is stopped, its port unbound.
C3_CleanupStopsEveryReceiver ==
  Returned({"cleanup"}) =>
    /\ \A n \in RegistryNames : sessions[n] = 0
    /\ \A r \in 1..Len(recv) : recv[r] # "running"
    /\ port_owner = 0

\* C4: when initialize_all_sessions raises because the k-th server failed, no
\* session of the batch is open or cached, the shared receiver is stopped,
\* is_initialized is false and no server after the k-th was attempted.
C4_EagerFailureReleasesBatch ==
  (Returned({"eager"}) /\ last.err # "none") =>
    /\ \A s \in last.batch : sess[s].status = "closed"
    /\ \A n \in RegistryNames : sessions[n] = 0
    /\ recv[last.rcv] = "stopped"
    /\ port_owner # last.rcv
    /\ ~initialized
    /\ last.name = registry[last.idx]
    /\ last.tried = {registry[i] : i \in 1..last.idx}

C4_Witness ==
  /\ Returned({"eager"})
  /\ last.err # "none"
  /\ last.idx = Len(Registry)
  /\ registry = Registry
  /\ Cardinality(last.batch) >= 2

\* C5: when initialize_server raises after it started a receiver or entered a
\* session context, the receiver is stopped with its port unbound and the
\* un-cached session is closed.
C5_FailedAcquisitionReleases ==
  (Returned(Acquiring) /\ last.err = "init_failed") =>
    /\ last.rcv # 0 => (recv[last.rcv] # "running" /\ port_owner # last.rcv)
    /\ last.ses # 0 => sess[last.ses].status = "closed"


Waits == 1..Len(fut)

\* handle_callback has returned or raised for wait f other than by cancellation.
Completed(f) == fut[f].out # <<>> /\ fut[f].out # <<"cancelled">>

Answered == resp.status # 0

\* C6: during one handle_callback wait the pending result is resolved exactly
\* once, by the first callback request carrying a code or an error; no later
\* request schedules a second resolution of the same future.
C6_ResolutionScheduledOnce ==
  \A f \in Waits : fut[f].nsched <= 1

\* C7: a callback with a non-empty code and no error that arrives while a wait
\* is pending makes that handle_callback return exactly the (code, state)
\* received, and is answered with HTTP 200.
C7_CodeCallbackReturnsCodeAndState ==
  /\ \A f \in Waits : \A q \in fut[f].pend :
       (Completed(f) /\ Branch(q) = "ok") => fut[f].out = <<"ok", q.code, q.state>>
  /\ (Answered /\ resp.arr = "pending" /\ Branch(resp.q) = "ok") => resp.status = 200

\* C8: a callback with a non-empty error parameter, with or without a code,
\* makes the pending handle_callback fail with 'OAuth error: <error> -
\* <error_description>' ('Unknown error' when no description is given), and
\* is answered with HTTP 400.
C8_ErrorCallbackFailsWait ==
  /\ \A f \in Waits : \A q \in fut[f].pend :
       (Completed(f) /\ Branch(q) = "error") => fut[f].out = OAuthError(q)
  /\ (Answered /\ resp.arr = "pending" /\ Branch(resp.q) = "error") => resp.status = 400

\* C9: a callback with neither code nor error makes the pending
\* handle_callback fail with 'No authorization code received', and is
\* answered with HTTP 400.
C9_MissingCodeFailsWait ==
  /\ \A f \in Waits : \A q \in fut[f].pend :
       (Completed(f) /\ Branch(q) = "no_code") => fut[f].out = NoCodeError
  /\ (Answered /\ resp.arr = "pending" /\ Branch(resp.q) = "no_code") => resp.status = 400

\* C10: a callback that arrives when no wait is registered, or when the
\* registered wait is already resolved, schedules no resolution and raises
\* nothing; it is answered 200 for a code, 400 for an error or a missing code.
C10_NoWaitNoResolution ==
  (Answered /\ resp.arr \in {"none", "resolved"}) =>
    /\ ~resp.scheduled
    /\ resp.status = Status(resp.q)

\* C11: when stop() is called while a handle_callback wait is pending, the
\* pending authorisation is resolved as cancelled or failed, so the waiting
\* coroutine eventually resumes.
C11_StoppedWaitResumes ==
  (co.pc = "waiting" /\ co.mt = "joined" /\ fut[co.f].st = "pending")
    ~> (co.pc = "idle")

\* A get_session_async / initialize_server call for a name that is not in the
\* registry bound to the manager has just returned or raised.
UnknownNameCall == state_set /\ Returned(Acquiring) /\ last.name \notin Known

ManagerResources == <<sessions, exit_stack, stacks, sess, recv, port_owner>>

C20_CleanupIdempotent ==
  [][(last'.pc = "done" /\ last'.op = "cleanup") =>
       /\ last'.err = "none"
       /\ \A n \in RegistryNames : sessions'[n] = 0
       /\ exit_stack' = 0
       /\ ~initialized'
       /\ last'.idx = 2 => UNCHANGED <<ManagerResources, initialized, state_set>>]_vars

C20_Witness ==
  /\ Returned({"cleanup"})
  /\ last.idx = 2
  /\ \E s \in 1..Len(sess) : sess[s].status = "closed"
  /\ \E r \in 1..Len(recv) : recv[r] = "stopped"

\* ------------------------------------------------------ claims on the storage
Called(ops) == slast.op \in ops

\* get_tokens() has just returned on an instance constructed after the last
\* set_tokens(t) returned.
FreshGet ==
  /\ Called({"get"})
  /\ slast.rec = "tokens"
  /\ lastSet.val # None
  /\ slast.inst > lastSet.stores

\* Both instances passed the probe and neither call met a keychain exception.
AvailablePath ==
  /\ probe[lastSet.inst]
  /\ lastSet.tier = "keychain"
  /\ probe[slast.inst]
  /\ slast.en_before
  /\ ~slast.kc_raised

\* The probe failed at the construction of both instances (and the read of
\* the file met no error).
UnavailablePath ==
  /\ ~probe[lastSet.inst]
  /\ ~probe[slast.inst]
  /\ ~slast.file_fault

\* C12: set_tokens(t) on one store instance followed by get_tokens() on a
\* fresh instance of the same server and location returns a credential equal
\* to t, on the keychain-available path and on the keychain-unavailable path,
\* after any earlier history of store operations.
C12_RoundTripOnFreshInstance ==
  (FreshGet /\ (AvailablePath \/ UnavailablePath)) => slast.res = lastSet.val

C12_Witness ==
  /\ FreshGet
  /\ UnavailablePath
  /\ slast.res = lastSet.val
  /\ slast.res.refresh_token = "none"
  /\ file.data["client_info"] # Absent

\* C13: while keychain_enabled is true, a get or set call that meets no
\* keychain exception neither reads nor writes the fallback file, also when
\* the keychain holds no entry for the record.
C13_EnabledCallStaysOffFile ==
  (Called({"get", "set"}) /\ slast.en_before /\ ~slast.kc_raised) =>
    (~slast.file_read /\ ~slast.file_written)

\* C14: keychain_enabled of an instance never goes from false to true, and a
\* call on an instance whose flag is false does not call the keychain.
C14_DowngradeIsPermanent ==
  [][/\ \A i \in Stores : ~enabled[i] => ~enabled'[i]
     /\ (slast'.op \in {"get", "set"} /\ ~slast'.en_before) => slast'.kc_calls = 0]_vars

C14_Witness ==
  /\ Called({"get", "set"})
  /\ probe[slast.inst]
  /\ ~slast.en_before
  /\ slast.kc_calls = 0
  /\ kc[slast.rec] # None

\* C15: when the keychain raises inside a get or set call, the exception does
\* not reach the caller: the instance's keychain_enabled becomes false and the
\* same call is completed against the fallback file (a read returns the
\* file's record, a write stores the value in the file).
C15_KeychainErrorFallsBackToFile ==
  (Called({"get", "set"}) /\ slast.kc_raised) =>
    /\ ~enabled[slast.inst]
    /\ slast.err \in {"none", "file"}
    /\ slast.file_read
    /\ (slast.op = "get" /\ ~slast.file_fault) => slast.res = FileRecord(slast.rec)
    /\ (slast.op = "set" /\ slast.err = "none") =>
         /\ file.exists /\ file.valid
         /\ Load(slast.rec, file.data[slast.rec]) = slast.arg

C15_Witness ==
  /\ Called({"get"})
  /\ slast.kc_raised
  /\ slast.res # None
  /\ kc[slast.rec] # None
  /\ Load(slast.rec, kc[slast.rec]) # slast.res

\* C16: a failure of a file-tier operation, store or retrieve, is re-raised to
\* the caller; it is never turned into a normal result.
C16_FileErrorIsRaised ==
  (Called({"get", "set"}) /\ slast.file_fault) => slast.err = "file"

\* C17: the file changes only by a file-tier write; a write that returns
\* holds the value written for its record and leaves the other record as it
\* was (so the file holds the latest value written for each record).
C17_FileWriteMerges ==
  [][file' # file =>
       /\ slast'.op = "set"
       /\ slast'.file_written
       /\ slast'.err = "none" =>
            /\ file'.exists /\ file'.valid
            /\ file'.data[slast'.rec] = Dump(slast'.rec, slast'.arg)
            /\ \A r \in StoreRecords \ {slast'.rec} : file'.data[r] = file.data[r]]_vars

C17_Witness ==
  /\ Called({"set"})
  /\ slast.rec = "tokens"
  /\ slast.file_written
  /\ slast.err = "none"
  /\ slast.rewrite
  /\ file.data["client_info"] # Absent
  /\ file.data["tokens"] = Dump("tokens", slast.arg)

\* C18: whenever the fallback file exists, only its owner can read or write
\* it, after the first write and after every rewrite.
C18_FileIsOwnerOnly ==
  file.exists => file.mode \subseteq OwnerOnly

C18_Witness ==
  /\ file.exists
  /\ umask = {}
  /\ Called({"set"})
  /\ slast.file_written
  /\ slast.rewrite
  /\ file.mode = OwnerOnly

HeldSet == {last.held[i] : i \in 1..Len(last.held)}

\* C21: if releasing one resource fails during cleanup(), every other resource
\* the stack held is still released and the cache is still cleared; the
\* failure is logged and not raised to the caller.
C21_ReleaseFailureDoesNotStopCleanup ==
  (Returned({"cleanup"}) /\ last.logged) =>
    /\ last.err = "none"
    /\ \A n \in RegistryNames : sessions[n] = 0
    /\ exit_stack = 0
    /\ last.failed # {}
    /\ \A it \in HeldSet :
         /\ it[1] = "sess" => sess[it[2]].status = "closed"
         /\ it[1] = "recv" => recv[it[2]] = "stopped"

C21_Witness ==
  /\ Returned({"cleanup"})
  /\ last.logged
  /\ \E a, b \in HeldSet :
       /\ a[1] = "sess" /\ a[2] \in last.failed
       /\ b[1] = "sess" /\ b[2] \notin last.failed /\ sess[b[2]].status = "closed"
  /\ \E c \in HeldSet : c[1] = "recv" /\ recv[c[2]] = "stopped"

Reverse(s) == [i \in 1..Len(s) |-> s[Len(s) + 1 - i]]

\* C22: cleanup() releases what its stack holds in the exact reverse of the
\* order of acquisition: the last connected session first, then the receiver
\* acquired for it, then the earlier sessions and receivers likewise, so no
\* receiver on the stack is stopped before a session pushed after it is closed.
C22_CleanupReleasesInReverseOrder ==
  Returned({"cleanup"}) =>
    /\ last.rel = Reverse(last.held)
    /\ \A i, j \in 1..Len(last.held) :
         (i < j /\ last.held[i][1] = "recv" /\ last.held[j][1] = "sess") =>
           \E a, b \in 1..Len(last.rel) :
             a < b /\ last.rel[a] = last.held[j] /\ last.rel[b] = last.held[i]

C22_Witness ==
  /\ Returned({"cleanup"})
  /\ Len(last.held) = 4
  /\ last.held[1][1] = "recv" /\ last.held[2][1] = "sess"
  /\ last.held[3][1] = "recv" /\ last.held[4][1] = "sess"
  /\ last.rel = <<last.held[4], last.held[3], last.held[2], last.held[1]>>

\* C23: after cleanup() the manager is closed for the rest of its lifetime: a
\* later initialize_server / get_session_async fails fast without connecting,
\* and no session is cached again on that manager. Stated for the call made
\* right after a cleanup() returned: it does not start to connect.
C23_ClosedIsTerminal ==
  [][Returned({"cleanup"}) =>
       \A t \in Tasks : task'[t].op \in Acquiring => task'[t].pc = "idle"]_vars

ConnectFailed == Returned(Acquiring) /\ last.err = "init_failed"

\* C24: a failure inside the connect path of initialize_server (unsupported
\* config kind, connector failure, session.initialize() failure) reaches the
\* caller as the manager's error naming the failing server, and the call
\* leaves the session cache as it was: the failing server is not cached and
\* the sessions cached before stay cached.
C24_ConnectFailureNamesServerKeepsCache ==
  [][/\ (\E t \in Tasks : task'[t].op \in Acquiring) => sessions' = sessions
     /\ ConnectFailed' =>
          /\ last'.msg = <<"Failed to initialize MCP server", last'.name>>
          /\ sessions' = sessions
          /\ sessions'[last'.name] = 0]_vars

C24_Witness ==
  /\ ConnectFailed
  /\ Kind(last.name) = "other"
  /\ last.msg[2] = last.name
  /\ \E n \in RegistryNames : n # last.name /\ sessions[n] # 0

\* C25: during one initialize_all_sessions batch exactly one callback
\* receiver is started, whatever the number of SSE/HTTP servers configured,
\* and every remote server of the batch is connected with that receiver.
C25_OneReceiverPerBatch ==
  /\ \A t \in Tasks :
       (task[t].op = "eager" /\ task[t].pc # "idle") => Len(recv) = task[t].rcv
  /\ (Returned({"eager"}) /\ last.rcv # 0) =>
       /\ Len(recv) = last.rcv
       /\ \A s \in last.batch :
            Kind(sess[s].name) # "stdio" => sess[s].recv = last.rcv

C25_Witness ==
  /\ Returned({"eager"})
  /\ last.err = "none"
  /\ last.rcv = 2
  /\ Len(recv) = 2
  /\ \E x, y \in last.batch :
       /\ Kind(sess[x].name) = "sse" /\ sess[x].recv = 2
       /\ Kind(sess[y].name) = "http" /\ sess[y].recv = 2

\* C26: start() on a receiver whose listener is already running is a no-op:
\* no second listener thread or server object is created and the running one
\* is unchanged.
C26_StartOnRunningIsNoOp ==
  [][(acall'.op = "start" /\ acall'.running) =>
       UNCHANGED <<server, server_thread, threads, listening, cb_future, cb_code,
                   cb_state, main_loop, fut, ready, co, h>>]_vars

C26_Witness ==
  /\ acall.op = "start"
  /\ acall.running
  /\ listening
  /\ threads = <<"alive">>
  /\ server = 1
  /\ server_thread = 1
  /\ co.pc = "waiting"

ColdStop == acall.op = "stop" /\ acall.cold

\* C28: stop() on a receiver that was never started, or that is already
\* stopped, raises nothing and leaves all transient state cleared: the stored
\* code and state, the pending future, the captured loop, server and thread.
C28_ColdStopClearsState ==
  ColdStop =>
    /\ cb_code = "none"
    /\ cb_state = "none"
    /\ cb_future = 0
    /\ ~main_loop
    /\ server = 0
    /\ server_thread = 0

\* The never-started half of C28: stop() on a receiver that never had a
\* listener thread leaves all transient state cleared.
C28_NeverStartedStopClearsState ==
  (ColdStop /\ threads = <<>>) =>
    /\ cb_code = "none"
    /\ cb_state = "none"
    /\ cb_future = 0
    /\ ~main_loop
    /\ server = 0
    /\ server_thread = 0

\* C27: whenever handle_callback completes, by success, failure or
\* cancellation, _callback_future and the captured loop are cleared, and a
\* later handle_callback waits on a fresh future that only a callback
\* arriving later can resolve, never one received for an earlier wait.
C27_CompletionClearsAndNextWaitIsFresh ==
  /\ (co.pc = "idle" /\ co.mt = "loop") => (cb_future = 0 /\ ~main_loop)
  /\ \A f \in Waits : fut[f].st = "done" => ~fut[f].stale

\* The first half of C27: with no handle_callback or stop() in progress the
\* pending slot and the captured loop are cleared.
C27_CompletionClears ==
  (co.pc = "idle" /\ co.mt = "loop") => (cb_future = 0 /\ ~main_loop)

\* C29: the handler never resolves the pending future from the listener
\* thread: every set_result / set_exception runs on the event loop captured
\* by handle_callback, where the handler scheduled it.
C29_ResolutionRunsOnMainLoop ==
  \A f \in Waits :
    /\ fut[f].st = "done" => (fut[f].thr = "loop" /\ fut[f].nsched >= 1)
    /\ fut[f].thr # "listener"

C29_Witness ==
  \E f \in Waits :
    /\ fut[f].st = "done"
    /\ fut[f].thr = "loop"
    /\ fut[f].out = <<"ok", "abc123", "xyz">>
    /\ fut[f].nsched = 1

OpenNames == {sess[i].name : i \in {j \in 1..Len(sess) : sess[j].status = "open"}}

AddCommands == {"add-sse", "add-stdio", "add-http"}

\* The names stored in the registry file.
StoredNames == IF mcp_json = Absent THEN {} ELSE DOMAIN mcp_json.mcpServers

C32_AddBeforeInitFails ==
  (cli.cmd \in AddCommands /\ ~cli.init)
  => /\ cli.exit # 0
     /\ NotInitializedMsg \in {cli.out, cli.err}
     /\ StoredNames = {}

\* What does hold of the command before init: the message is printed and
\* no registry file is created.
C32_AddBeforeInitAddsNothing ==
  (cli.cmd \in AddCommands /\ ~cli.init)
  => /\ cli.out = NotInitializedMsg
     /\ mcp_json = Absent

\* ------------------------------------------- claims on the manager, continued
\* The entries of the stack the manager holds now.
Owned == IF exit_stack = 0 THEN {} ELSE {stacks[exit_stack][i] : i \in 1..Len(stacks[exit_stack])}

Live == {s \in 1..Len(sess) : sess[s].status = "open"}

\* C33: with on-demand initialisation only, at every moment every live
\* session the manager created, the cached ones and the ones a racing
\* request for the same name created, is an entry of the manager's resource
\* stack, so that the next cleanup() releases it (a cleanup() under way has
\* taken the sessions it closed off the stack before it empties the cache).
C33_SessionsOwnedByStack ==
  /\ \A s \in Live : <<"sess", s>> \in Owned
  /\ \A n \in RegistryNames :
       sessions[n] # 0 => \/ <<"sess", sessions[n]>> \in Owned
                          \/ \E t \in Tasks : task[t].pc = "closing"

\* C34: when initialize_all_sessions returns or raises on a manager that
\* held on-demand sessions, every session still live is an entry of the
\* manager's resource stack (so the next cleanup() releases it) and no name
\* has two live sessions.
C34_EagerKeepsOnDemandResources ==
  Returned({"eager"}) =>
    /\ \A s \in Live : <<"sess", s>> \in Owned
    /\ \A n \in RegistryNames :
         Cardinality({s \in Live : sess[s].name = n}) <= 1

\* C35: while an on-demand acquisition of an SSE or HTTP server is under
\* way, the receiver started for it is listening on the callback port, so
\* that a callback made now reaches this attempt's receiver and not the
\* receiver of a server acquired earlier.
C35_EachAttemptOwnsCallbackPort ==
  \A t \in Tasks :
    (task[t].op \in Acquiring /\ task[t].pc \in {"auth_start", "connect", "initialize"}
     /\ task[t].rcv # 0)
    => /\ recv[task[t].rcv] = "running"
       /\ port_owner = task[t].rcv

\* C36: the receiver whose handle_callback was given to the OAuth provider
\* of a live SSE or HTTP session has not been stopped: a receiver is stopped
\* only after every session built with it is closed, on the on-demand path
\* and on the eager path, also after initialize_all_sessions has returned.
C36_ReceiverOutlivesItsSessions ==
  \A s \in Live : sess[s].recv # 0 => recv[sess[s].recv] # "stopped"

\* ---------------------------------------- claims on the AuthServer, continued
\* C37: what handle_callback returns or raises for its wait is the outcome of
\* a callback request that found this very wait pending when the handler
\* checked for one: a request received before the wait was registered (its
\* code stored in _callback_code) never completes a later wait, which stays
\* pending until a new request arrives.
C37_OnlyOwnCallbackCompletesWait ==
  \A f \in Waits :
    Completed(f) => \E q \in fut[f].pend : fut[f].out = Resolution(q).val

\* What does hold: a request whose handler found no wait registered at its
\* check schedules nothing, whatever is registered afterwards.
C37_NoWaitRequestSchedulesNothing ==
  (Answered /\ resp.arr = "none") => (~resp.scheduled /\ resp.status = Status(resp.q))

\* C40: the callback handler never dereferences a cleared future or loop:
\* whatever handle_callback's finally block or stop() do meanwhile, no
\* request ends in the AttributeError of a call on None (answered 500), and
\* the future a handler schedules on is the one its check found.
C40_HandlerNeverDereferencesNone ==
  /\ resp.status # 500
  /\ \A i \in 1..Len(ready) : ready[i].seen = ready[i].f

\* ------------------------------------------- claims on the storage, continued
\* C38: get_tokens() on the instance that made the latest successful
\* set_tokens(t) returns t, whatever keychain calls failed in between, also
\* when the instance was downgraded to the file after t went to the keychain
\* (the read of the file itself meeting no error).
C38_ReadYourWrites ==
  (Called({"get"}) /\ slast.rec = "tokens" /\ lastSet.val # None
   /\ slast.inst = lastSet.inst /\ ~slast.file_fault)
  => slast.res = lastSet.val

\* ------------------------------------------------- claims on cxk create-spec
\* C39: however handle_create_spec ends (rendered template, template parse
\* error, missing template, invalid --var, any sys.exit on an error path),
\* session_manager.cleanup() has run by then, and no session opened during
\* the command is live or cached.
C39_CreateSpecEndsWithCleanup ==
  cmd.pc = "ended" =>
    /\ CleanupReturned
    /\ Live = {}
    /\ \A n \in RegistryNames : sessions[n] = 0
    /\ exit_stack = 0

\* The command ended through sys.exit(1) after it had opened two sessions,
\* which its cleanup released.
C39_Witness ==
  /\ cmd.pc = "ended"
  /\ cmd.how = "exception"
  /\ cmd.exit = 1
  /\ Len(sess) >= 2
  /\ Len(last.rel) >= 2


====
